---- MODULE Spec2Model ----
(***************************************************************************)
(* A model of build.rs, the build script of the opus bindings crate:       *)
(* main() runs ensure_opus_source, build_opus_from_source (which calls     *)
(* add_c_files four times and then the native compiler) and the binding    *)
(* generator, in that order, and any panic ends the invocation.            *)
(*                                                                         *)
(* Text that the code searches or splits (the target-feature string, file  *)
(* names) is a sequence of one-character strings, so that substring search *)
(* and extension splitting are computed as the code computes them.  Text   *)
(* that the code only compares for equality is a TLA+ string.              *)
(***************************************************************************)
EXTENDS Integers, Sequences, FiniteSets, TLC

VARIABLES
    tree,       \* the source tree on disk at opus_path
    pc,         \* position of the current invocation of main()
    err,        \* panic message of the current invocation, or NoError
    runs,       \* number of invocations of main() started so far
    clones,     \* number of clones that succeeded so far, over all invocations
    gitOps,     \* git operations performed by the last ensure_opus_source call
    ensureRet,  \* how ensure_opus_source returned in this invocation
    started,    \* stages begun in this invocation, in order
    completed,  \* stages completed successfully in this invocation, in order
    env,        \* environment signals read by build_opus_from_source
    fs,         \* state of each module directory as read by add_c_files
    dir,        \* directory argument of the last add_c_files call
    build,      \* the cc::Build value
    artifact,   \* the static archive was produced by this invocation
    bindings    \* bindings.rs was written by this invocation

vars == <<tree, pc, err, runs, clones, gitOps, ensureRet, started, completed,
          env, fs, dir, build, artifact, bindings>>

----------------------------------------------------------------------------
(* Bounds of the model *)

\* invocations of main() on the same root path
MaxRuns == 3

\* feature names in CARGO_CFG_TARGET_FEATURE
MaxFeatures == 3

\* entries of the directory handed to add_c_files
MaxEntries == 3

----------------------------------------------------------------------------
(* Program constants *)

OPUS_TAG_VERSION == "v1.5.2"

\* opt_level(2)
OptLevel == 2

NoError == "none"
ErrClone == "Failed to clone Opus repository"
ErrTagNotFound == "Failed to find v1.5.2 tag"
ErrCheckout == "Failed to checkout v1.5.2"
ErrSetHead == "Failed to set HEAD to v1.5.2"
ErrCompile == "cc: compilation failed"
ErrGenerate == "Unable to generate bindings"
ErrWrite == "Couldn't write bindings!"

----------------------------------------------------------------------------
(* Option values and strings *)

None == <<>>
Some(v) == <<v>>

\* Result<String, VarError>::unwrap_or_default
UnwrapOrDefault(o, default) == IF o = None THEN default ELSE o[1]

\* str::contains(&str): needle occurs as a contiguous run of hay
Contains(hay, needle) ==
    \E i \in 0..(Len(hay) - Len(needle)) :
        SubSeq(hay, i + 1, i + Len(needle)) = needle

S_avx == <<"a", "v", "x">>
S_avx2 == <<"a", "v", "x", "2">>
S_sse2 == <<"s", "s", "e", "2">>
S_sse41 == <<"s", "s", "e", "4", ".", "1">>
S_neon == <<"n", "e", "o", "n">>

\* feature names cargo may list, in the order they are joined
FeatureOrder == <<S_avx, S_avx2, S_neon, S_sse2, S_sse41>>

FeatureNames == {FeatureOrder[i] : i \in 1..Len(FeatureOrder)}

\* the comma-separated value of CARGO_CFG_TARGET_FEATURE for a set of names
RECURSIVE JoinFrom(_, _)
JoinFrom(i, names) ==
    IF i > Len(FeatureOrder) THEN <<>>
    ELSE LET rest == JoinFrom(i + 1, names)
         IN  IF FeatureOrder[i] \notin names THEN rest
             ELSE IF rest = <<>> THEN FeatureOrder[i]
             ELSE FeatureOrder[i] \o <<",">> \o rest

FeatureString(names) == JoinFrom(1, names)

----------------------------------------------------------------------------
(* Environment signals of build_opus_from_source *)

ArchValues == {None, Some("x86"), Some("x86_64"), Some("arm"), Some("aarch64"),
               Some("riscv64")}

SimdValues == {None, Some("true"), Some("1"), Some("TRUE"), Some("0")}

FeatureValues ==
    {None} \cup {Some(FeatureString(s)) :
                    s \in {t \in SUBSET FeatureNames : Cardinality(t) <= MaxFeatures}}

\* target features the build script itself was compiled with (cfg!)
AmbientValues == SUBSET {"avx", "sse4.1", "sse2"}

EnvInputs ==
    [arch : ArchValues, feature : FeatureValues, simd : SimdValues,
     ambient : AmbientValues, msvc : BOOLEAN]

NoEnv == [arch |-> None, feature |-> None, simd |-> None, ambient |-> {},
          msvc |-> FALSE]

----------------------------------------------------------------------------
(* cc::Build and the configuration part of build_opus_from_source *)

NewBuild == [includes |-> <<>>, defines |-> <<>>, flags |-> <<>>,
             files |-> <<>>, opt |-> 0]

IncludeDirsFour == <<"include", "src", "celt", "silk">>

IncludeDirs == <<"include", "src", "celt", "silk", "silk/float">>

AlwaysDefines == <<"OPUS_BUILD", "USE_ALLOCA", "HAVE_LRINT", "HAVE_LRINTF">>

X86Defines == {"OPUS_X86_MAY_HAVE_AVX", "OPUS_X86_MAY_HAVE_SSE4_1",
               "OPUS_X86_MAY_HAVE_SSE2", "OPUS_X86_PRESUME_SSE"}

ArmDefines == {"OPUS_ARM_MAY_HAVE_NEON", "OPUS_ARM_MAY_HAVE_NEON_INTR"}

ArchSpecificDefines == X86Defines \cup ArmDefines

SimdEnabledLoose(enable_simd) == enable_simd # "" /\ enable_simd # "0"

\* match enable_simd.as_str() { "true" | "1" => ..., _ => {} }
SimdEnabled(enable_simd) == enable_simd \in {"true", "1"}

\* the "x86" | "x86_64" arm
X86Simd(target_feature, ambient) ==
    (IF Contains(target_feature, S_avx) \/ "avx" \in ambient
     THEN <<"OPUS_X86_MAY_HAVE_AVX">> ELSE <<>>)
    \o (IF Contains(target_feature, S_sse41) \/ "sse4.1" \in ambient
        THEN <<"OPUS_X86_MAY_HAVE_SSE4_1">> ELSE <<>>)
    \o (IF Contains(target_feature, S_sse2) \/ "sse2" \in ambient
        THEN <<"OPUS_X86_MAY_HAVE_SSE2">> ELSE <<>>)
    \o <<"OPUS_X86_PRESUME_SSE">>

ArmSimdFeatureOnly(target_arch, target_feature) ==
    IF Contains(target_feature, S_neon)
    THEN <<"OPUS_ARM_MAY_HAVE_NEON", "OPUS_ARM_MAY_HAVE_NEON_INTR">>
    ELSE <<>>

\* the "arm" | "aarch64" arm
ArmSimd(target_arch, target_feature) ==
    IF Contains(target_feature, S_neon) \/ target_arch = "aarch64"
    THEN <<"OPUS_ARM_MAY_HAVE_NEON", "OPUS_ARM_MAY_HAVE_NEON_INTR">>
    ELSE <<>>

\* the defines added by the match on enable_simd and target_arch
SimdDefines(target_arch, target_feature, enable_simd, ambient) ==
    IF ~SimdEnabled(enable_simd) THEN <<>>
    ELSE IF target_arch \in {"x86", "x86_64"} THEN X86Simd(target_feature, ambient)
    ELSE IF target_arch \in {"arm", "aarch64"} THEN ArmSimd(target_arch, target_feature)
    ELSE <<>>

SuppressionFlags ==
    <<"-Wno-unused-variable", "-Wno-unused-parameter",
      "-Wno-unused-but-set-variable", "-Wno-maybe-uninitialized",
      "-Wno-sign-compare", "-Wno-pragmas">>

WarningFlagsAlways(is_like_msvc) == SuppressionFlags

\* if !compiler.is_like_msvc() { build.flag(...) x 6 }
WarningFlags(is_like_msvc) == IF ~is_like_msvc THEN SuppressionFlags ELSE <<>>

\* build_opus_from_source up to the add_c_files calls
Configure(e) ==
    LET target_arch == UnwrapOrDefault(e.arch, "")
        target_feature == UnwrapOrDefault(e.feature, <<>>)
        enable_simd == UnwrapOrDefault(e.simd, "")
    IN  [includes |-> IncludeDirs,
         defines |-> AlwaysDefines
                     \o SimdDefines(target_arch, target_feature, enable_simd, e.ambient),
         flags |-> WarningFlags(e.msvc),
         files |-> <<>>,
         opt |-> OptLevel]

----------------------------------------------------------------------------
(* Module directories and add_c_files *)

\* the four add_c_files calls, in order
ModuleDirs == <<"src", "celt", "silk", "silk/float">>

ModuleDirSet == {ModuleDirs[i] : i \in 1..Len(ModuleDirs)}

N_a_c == <<"a", ".", "c">>
N_b_c == <<"b", ".", "c">>
N_readme_txt == <<"r", "e", "a", "d", "m", "e", ".", "t", "x", "t">>
N_sub == <<"s", "u", "b">>
N_sub_c == <<"s", "u", "b", ".", "c">>
N_dot_c == <<".", "c">>
N_x_C == <<"x", ".", "C">>
N_a_c_in == <<"a", ".", "c", ".", "i", "n">>
N_float == <<"f", "l", "o", "a", "t">>

\* an item of the read_dir iterator: Ok(DirEntry) or Err
File(name) == [ok |-> TRUE, name |-> name, kind |-> "file"]
Dir(name) == [ok |-> TRUE, name |-> name, kind |-> "dir"]
ErrEntry == [ok |-> FALSE, name |-> <<>>, kind |-> "error"]

EntryInputs ==
    {File(N_a_c), File(N_b_c), File(N_readme_txt), Dir(N_sub), Dir(N_sub_c),
     File(N_dot_c), File(N_x_C), File(N_a_c_in), ErrEntry}

\* a directory holds each name once; failed items may repeat
NoRepeat(s) ==
    \A i, j \in 1..Len(s) : (i # j /\ s[i].ok /\ s[j].ok) => s[i].name # s[j].name

Listings ==
    UNION {{s \in [1..n -> EntryInputs] : NoRepeat(s)} : n \in 0..MaxEntries}

Missing == [status |-> "missing", entries |-> <<>>]
Unreadable == [status |-> "unreadable", entries |-> <<>>]
Readable(entries) == [status |-> "ok", entries |-> entries]

DirInputs == {Missing, Unreadable} \cup {Readable(s) : s \in Listings}

NoFs == [d \in ModuleDirSet |-> Missing]

\* position of the last "." in a name, 0 when there is none
LastDot(name) ==
    LET dots == {i \in 1..Len(name) : name[i] = "."}
    IN  IF dots = {} THEN 0 ELSE CHOOSE i \in dots : \A j \in dots : j <= i

\* Path::extension of dir.join(name): the text after the last ".", unless the
\* name has no "." or only a leading one
Extension(name) ==
    IF name = <<".", ".">> THEN None
    ELSE IF LastDot(name) <= 1 THEN None
    ELSE Some(SubSeq(name, LastDot(name) + 1, Len(name)))

\* path.extension().map_or(false, |ext| ext == "c")
HasCExtension(name) ==
    IF Extension(name) = None THEN FALSE ELSE Extension(name)[1] = <<"c">>

\* entry.path()
PathOf(d, name) == [dir |-> d, name |-> name]

\* the loop of add_c_files over entries.flatten()
RECURSIVE CFilesFrom(_, _, _)
CFilesFrom(i, d, entries) ==
    IF i > Len(entries) THEN <<>>
    ELSE IF entries[i].ok /\ HasCExtension(entries[i].name)
    THEN <<PathOf(d, entries[i].name)>> \o CFilesFrom(i + 1, d, entries)
    ELSE CFilesFrom(i + 1, d, entries)

\* add_c_files(build, dir), reading a directory in state s
AddCFiles(b, d, s) ==
    IF s.status = "ok"
    THEN [b EXCEPT !.files = @ \o CFilesFrom(1, d, s.entries)]
    ELSE b

RECURSIVE ScanFromStop(_, _, _)
ScanFromStop(i, b, f) ==
    IF i > Len(ModuleDirs) THEN b
    ELSE IF f[ModuleDirs[i]].status # "ok" THEN b
    ELSE ScanFromStop(i + 1, AddCFiles(b, ModuleDirs[i], f[ModuleDirs[i]]), f)

\* the four add_c_files calls of build_opus_from_source, from the i-th on
RECURSIVE ScanFrom(_, _, _)
ScanFrom(i, b, f) ==
    IF i > Len(ModuleDirs) THEN b
    ELSE ScanFrom(i + 1, AddCFiles(b, ModuleDirs[i], f[ModuleDirs[i]]), f)

\* build_opus_from_source up to build.compile
BuildOpusFromSource(e, f) == ScanFrom(1, Configure(e), f)

\* the content of a module directory of the upstream tree
UpstreamEntries(d, hasFloat) ==
    <<File(N_a_c), File(N_readme_txt), Dir(N_sub), File(N_b_c)>>
    \o (IF d = "silk" /\ hasFloat THEN <<Dir(N_float)>> ELSE <<>>)

\* the module directories under opus_path: each missing, unreadable or holding
\* the upstream content; silk/float exists only inside an existing silk
TreeLayouts ==
    {[d \in ModuleDirSet |->
        IF st[d] = "ok"
        THEN Readable(UpstreamEntries(d, st["silk/float"] # "missing"))
        ELSE [status |-> st[d], entries |-> <<>>]] :
     st \in {x \in [ModuleDirSet -> {"missing", "unreadable", "ok"}] :
                x["silk"] = "missing" => x["silk/float"] = "missing"}}

\* the environments the pipeline is run in
PipelineEnvs ==
    [arch : {Some("x86_64"), Some("aarch64")}, feature : {None},
     simd : {None, Some("1")}, ambient : {{}}, msvc : BOOLEAN]

----------------------------------------------------------------------------
(* The source tree and ensure_opus_source *)

\* nothing at opus_path
Absent == [exists |-> FALSE, include |-> FALSE, rev |-> "none", head |-> "none"]

\* what RepoBuilder::clone leaves: the default branch checked out, HEAD on it
Cloned == [exists |-> TRUE, include |-> TRUE, rev |-> "default-branch",
           head |-> "branch"]

\* checkout_tree failed: the working tree may be partly rewritten
PartlyCheckedOut == [Cloned EXCEPT !.rev = "partial"]

\* checkout_tree succeeded, set_head_detached has not
CheckedOut == [Cloned EXCEPT !.rev = OPUS_TAG_VERSION]

\* checkout_tree and set_head_detached succeeded
Pinned == [CheckedOut EXCEPT !.head = "detached"]

\* the first git step that fails in a call that clones, or "ok"
EnsureOutcomes == {"clone_fails", "tag_missing", "checkout_fails",
                   "checkout_fails_partly", "set_head_fails", "ok"}

FastPathIncludeNegated(t) == t.exists /\ ~t.include

\* opus_path.exists() && opus_path.join("include").exists()
FastPath(t) == t.exists /\ t.include

Returned(t, how) ==
    [tree |-> t, err |-> NoError, ops |-> IF how = "existing" THEN <<>>
        ELSE <<"clone", "revparse_single", "checkout_tree", "set_head_detached">>,
     ret |-> how, cloned |-> how = "cloned"]

Panicked(t, message, ops) ==
    [tree |-> t, err |-> message, ops |-> ops, ret |-> "none",
     cloned |-> ops # <<"clone">>]

EnsureRollsBack(t, o) ==
    IF FastPath(t) THEN Returned(t, "existing")
    ELSE IF o = "clone_fails" THEN Panicked(t, ErrClone, <<"clone">>)
    ELSE IF o = "tag_missing"
    THEN Panicked(Absent, ErrTagNotFound, <<"clone", "revparse_single">>)
    ELSE IF o = "checkout_fails"
    THEN Panicked(Cloned, ErrCheckout,
                  <<"clone", "revparse_single", "checkout_tree">>)
    ELSE IF o = "checkout_fails_partly"
    THEN Panicked(PartlyCheckedOut, ErrCheckout,
                  <<"clone", "revparse_single", "checkout_tree">>)
    ELSE IF o = "set_head_fails"
    THEN Panicked(CheckedOut, ErrSetHead,
                  <<"clone", "revparse_single", "checkout_tree", "set_head_detached">>)
    ELSE Returned(Pinned, "cloned")

\* ensure_opus_source(opus_path) on tree t, the git steps ending as o says.
\* A clone that fails removes what it created, so it leaves t as it was; a
\* panic after the clone leaves the clone where it is.
EnsureOpusSource(t, o) ==
    IF FastPath(t) THEN Returned(t, "existing")
    ELSE IF o = "clone_fails" THEN Panicked(t, ErrClone, <<"clone">>)
    ELSE IF o = "tag_missing"
    THEN Panicked(Cloned, ErrTagNotFound, <<"clone", "revparse_single">>)
    ELSE IF o = "checkout_fails"
    THEN Panicked(Cloned, ErrCheckout,
                  <<"clone", "revparse_single", "checkout_tree">>)
    ELSE IF o = "checkout_fails_partly"
    THEN Panicked(PartlyCheckedOut, ErrCheckout,
                  <<"clone", "revparse_single", "checkout_tree">>)
    ELSE IF o = "set_head_fails"
    THEN Panicked(CheckedOut, ErrSetHead,
                  <<"clone", "revparse_single", "checkout_tree", "set_head_detached">>)
    ELSE Returned(Pinned, "cloned")

----------------------------------------------------------------------------
(* main() *)

StageOrder == <<"acquire", "configure", "compile", "bindgen">>

AfterIgnoringPanic(stage, error) ==
    IF stage = "ensure" THEN "build"
    ELSE IF stage = "build" THEN "bindgen"
    ELSE "done"

\* where main() is after a stage: a panic ends the invocation
After(stage, error) ==
    IF error # NoError THEN "aborted"
    ELSE IF stage = "ensure" THEN "build"
    ELSE IF stage = "build" THEN "bindgen"
    ELSE "done"

Init ==
    /\ tree = Absent
    /\ pc = "idle"
    /\ err = NoError
    /\ runs = 0
    /\ clones = 0
    /\ gitOps = <<>>
    /\ ensureRet = "none"
    /\ started = <<>>
    /\ completed = <<>>
    /\ env = NoEnv
    /\ fs = NoFs
    /\ dir = ""
    /\ build = NewBuild
    /\ artifact = FALSE
    /\ bindings = FALSE

\* cargo runs the build script
StartBuild ==
    /\ pc \in {"idle", "done", "aborted"}
    /\ runs < MaxRuns
    /\ runs' = runs + 1
    /\ pc' = "ensure"
    /\ err' = NoError
    /\ gitOps' = <<>>
    /\ ensureRet' = "none"
    /\ started' = <<>>
    /\ completed' = <<>>
    /\ env' = NoEnv
    /\ fs' = NoFs
    /\ dir' = ""
    /\ build' = NewBuild
    /\ artifact' = FALSE
    /\ bindings' = FALSE
    /\ UNCHANGED <<tree, clones>>

\* ensure_opus_source(&opus_path)
EnsureStep ==
    /\ pc = "ensure"
    /\ \E o \in EnsureOutcomes :
        LET r == EnsureOpusSource(tree, o)
        IN  /\ tree' = r.tree
            /\ err' = r.err
            /\ gitOps' = r.ops
            /\ ensureRet' = r.ret
            /\ clones' = IF r.cloned THEN clones + 1 ELSE clones
            /\ started' = <<"acquire">>
            /\ completed' = IF r.err = NoError THEN <<"acquire">> ELSE <<>>
            /\ pc' = After("ensure", r.err)
    /\ UNCHANGED <<runs, env, fs, dir, build, artifact, bindings>>

\* build_opus_from_source(&opus_path); build.compile succeeds or panics
BuildStep ==
    /\ pc = "build"
    /\ \E e \in PipelineEnvs, f \in TreeLayouts, compiled \in BOOLEAN :
        /\ env' = e
        /\ fs' = f
        /\ dir' = ModuleDirs[Len(ModuleDirs)]
        /\ build' = BuildOpusFromSource(e, f)
        /\ artifact' = compiled
        /\ err' = IF compiled THEN NoError ELSE ErrCompile
        /\ started' = started \o <<"configure", "compile">>
        /\ completed' = completed \o (IF compiled THEN <<"configure", "compile">>
                                      ELSE <<"configure">>)
        /\ pc' = After("build", IF compiled THEN NoError ELSE ErrCompile)
    /\ UNCHANGED <<tree, runs, clones, gitOps, ensureRet, bindings>>

\* bindgen ... .generate().expect(..); bindings.write_to_file(..).expect(..)
BindgenStep ==
    /\ pc = "bindgen"
    /\ \E e \in {NoError, ErrGenerate, ErrWrite} :
        /\ err' = e
        /\ bindings' = (e = NoError)
        /\ started' = started \o <<"bindgen">>
        /\ completed' = completed \o (IF e = NoError THEN <<"bindgen">> ELSE <<>>)
        /\ pc' = After("bindgen", e)
    /\ UNCHANGED <<tree, runs, clones, gitOps, ensureRet, env, fs, dir, build,
                   artifact>>

Next == StartBuild \/ EnsureStep \/ BuildStep \/ BindgenStep

Spec == Init /\ [][Next]_vars

----------------------------------------------------------------------------
(* The configuration of build_opus_from_source as a function of the         *)
(* environment: every environment is an initial state                       *)

InitConfig ==
    /\ env \in EnvInputs
    /\ pc = "configure"
    /\ tree = Pinned
    /\ err = NoError
    /\ runs = 1
    /\ clones = 1
    /\ gitOps = <<>>
    /\ ensureRet = "existing"
    /\ started = <<"acquire">>
    /\ completed = <<"acquire">>
    /\ fs = NoFs
    /\ dir = ""
    /\ build = NewBuild
    /\ artifact = FALSE
    /\ bindings = FALSE

\* build_opus_from_source from cc::Build::new() to the last build.flag
ConfigureStep ==
    /\ pc = "configure"
    /\ build' = Configure(env)
    /\ started' = started \o <<"configure">>
    /\ completed' = completed \o <<"configure">>
    /\ pc' = "configured"
    /\ UNCHANGED <<tree, err, runs, clones, gitOps, ensureRet, env, fs, dir,
                   artifact, bindings>>

NextConfig == ConfigureStep

SpecConfig == InitConfig /\ [][NextConfig]_vars

----------------------------------------------------------------------------
(* add_c_files as a function of the directory it reads: every directory     *)
(* state is an initial state                                                *)

InitScan ==
    /\ dir \in ModuleDirSet
    /\ \E s \in DirInputs : fs = [NoFs EXCEPT ![dir] = s]
    /\ pc = "scan"
    /\ tree = Pinned
    /\ err = NoError
    /\ runs = 1
    /\ clones = 1
    /\ gitOps = <<>>
    /\ ensureRet = "existing"
    /\ started = <<"acquire", "configure">>
    /\ completed = <<"acquire", "configure">>
    /\ env = NoEnv
    /\ build = Configure(NoEnv)
    /\ artifact = FALSE
    /\ bindings = FALSE

\* add_c_files(&mut build, &opus_path.join(dir))
ScanStep ==
    /\ pc = "scan"
    /\ build' = AddCFiles(build, dir, fs[dir])
    /\ pc' = "scanned"
    /\ UNCHANGED <<tree, err, runs, clones, gitOps, ensureRet, started,
                   completed, env, fs, dir, artifact, bindings>>

NextScan == ScanStep

SpecScan == InitScan /\ [][NextScan]_vars

----------------------------------------------------------------------------
(* Vocabulary of the properties *)

Range(s) == {s[i] : i \in 1..Len(s)}

IsPrefix(s, t) == Len(s) <= Len(t) /\ SubSeq(t, 1, Len(s)) = s

\* the architecture-specific defines of the build, in the order added
ArchDefinesOf(b) == SelectSeq(b.defines, LAMBDA d : d \in ArchSpecificDefines)

\* CARGO_CFG_TARGET_FEATURE lists every feature name of the set wanted
Reports(e, wanted) ==
    \E s \in SUBSET FeatureNames :
        wanted \subseteq s /\ e.feature = Some(FeatureString(s))

\* CARGO_SIMD_ENABLE is exactly "true" or "1"
ToggleOn(e) == e.simd \in {Some("true"), Some("1")}

\* the files of the build that lie in directory d
FilesIn(b, d) == {p \in Range(b.files) : p.dir = d}

----------------------------------------------------------------------------
(* Properties *)

\* C1: whenever ensure_opus_source has returned successfully, root/include
\* exists and the tree is at the pinned tag with a detached HEAD.
C1_PinnedAfterReturn ==
    ensureRet # "none" =>
        /\ tree.include
        /\ tree.rev = OPUS_TAG_VERSION
        /\ tree.head = "detached"

\* C2: once a clone into the root path has succeeded, every later call of
\* ensure_opus_source takes the existence fast path: it performs no git
\* operation and leaves the tree as it was, so the tree is cloned at most once.
C2_SecondCallIsNoOp ==
    [][/\ (pc = "ensure" /\ clones >= 1) =>
            /\ tree' = tree
            /\ gitOps' = <<>>
            /\ ensureRet' = "existing"
            /\ err' = NoError
       /\ clones' <= 1]_vars

C2_Witness ==
    /\ runs >= 2
    /\ clones = 1
    /\ ensureRet = "existing"
    /\ gitOps = <<>>
    /\ tree = Pinned

\* C3: with CARGO_SIMD_ENABLE other than "true" or "1" (or unset) the build has
\* no architecture-specific define; with it on, architecture x86_64 and the
\* features avx, sse4.1 and sse2 listed, the architecture-specific defines are
\* exactly the four x86 ones, each once.
C3_ToggleGating ==
    pc = "configured" =>
        /\ ~ToggleOn(env) => ArchDefinesOf(build) = <<>>
        /\ (ToggleOn(env) /\ env.arch = Some("x86_64")
                /\ Reports(env, {S_avx, S_sse41, S_sse2})) =>
            ArchDefinesOf(build) =
                <<"OPUS_X86_MAY_HAVE_AVX", "OPUS_X86_MAY_HAVE_SSE4_1",
                  "OPUS_X86_MAY_HAVE_SSE2", "OPUS_X86_PRESUME_SSE">>

C3_Witness ==
    /\ pc = "configured"
    /\ env.simd = Some("true")
    /\ env.arch = Some("x86_64")
    /\ env.ambient = {}
    /\ Reports(env, {S_avx, S_sse41, S_sse2})
    /\ Len(ArchDefinesOf(build)) = 4

\* C4: when the clone succeeded and the tag could not be resolved, the
\* invocation has aborted with the tag-not-found message, has produced neither
\* the archive nor the binding file, and the cloned tree is still on disk.
C4_TagNotFoundAborts ==
    (gitOps = <<"clone", "revparse_single">> \/ err = ErrTagNotFound) =>
        /\ pc = "aborted"
        /\ err = ErrTagNotFound
        /\ ~artifact
        /\ ~bindings
        /\ started = <<"acquire">>
        /\ tree.exists
        /\ tree = Cloned

C4_Witness ==
    /\ err = ErrTagNotFound
    /\ pc = "aborted"
    /\ tree.exists
    /\ clones = 1

\* C5: the stages of an invocation begin in the order acquisition,
\* configuration, compilation, binding generation, each only after the one
\* before it completed; a failure ends the invocation at the failing stage; the
\* binding file is written only after acquisition and compilation succeeded.
C5_StagesInOrder ==
    /\ IsPrefix(started, StageOrder)
    /\ IsPrefix(completed, started)
    /\ err = NoError => completed = started
    /\ err # NoError => /\ pc = "aborted"
                        /\ Len(started) = Len(completed) + 1
    /\ artifact => IsPrefix(<<"acquire", "configure", "compile">>, completed)
    /\ bindings => /\ completed = StageOrder
                   /\ ensureRet # "none"
                   /\ artifact

C5_Witness ==
    /\ pc = "done"
    /\ bindings
    /\ artifact
    /\ completed = StageOrder

\* C6: add_c_files adds exactly the regular files of the directory whose
\* extension is "c"; other files and all subdirectories are never added.
C6_ExactlyRegularCFiles ==
    pc = "scanned" =>
        FilesIn(build, dir) =
            {PathOf(dir, e.name) :
                e \in {x \in Range(fs[dir].entries) :
                          x.ok /\ x.kind = "file" /\ HasCExtension(x.name)}}

\* C7: a module directory that is missing or unreadable contributes no file
\* and no error; the other directories are still scanned and the compiler is
\* still invoked.
C7_MissingDirTolerated ==
    "configure" \in Range(started) =>
        /\ "compile" \in Range(started)
        /\ err \in {NoError, ErrCompile, ErrGenerate, ErrWrite}
        /\ \A d \in ModuleDirSet :
            /\ fs[d].status # "ok" => FilesIn(build, d) = {}
            /\ fs[d].status = "ok" =>
                \A i \in 1..Len(fs[d].entries) :
                    (fs[d].entries[i].kind = "file"
                        /\ HasCExtension(fs[d].entries[i].name))
                    => PathOf(d, fs[d].entries[i].name) \in FilesIn(build, d)

C7_Witness ==
    /\ artifact
    /\ fs["src"].status = "missing"
    /\ fs["celt"].status = "unreadable"
    /\ fs["silk"].status = "ok"
    /\ fs["silk/float"].status = "ok"
    /\ FilesIn(build, "silk/float") = {PathOf("silk/float", N_a_c),
                                        PathOf("silk/float", N_b_c)}
    /\ FilesIn(build, "src") = {}

\* C8: with the toggle on, aarch64 gets both NEON defines whatever the
\* features; arm gets both exactly when the features list neon, never one
\* without the other; an architecture outside x86, x86_64, arm and aarch64 gets
\* no architecture-specific define.
C8_NeonDefines ==
    (pc = "configured" /\ ToggleOn(env)) =>
        /\ env.arch = Some("aarch64") =>
            ArchDefinesOf(build) =
                <<"OPUS_ARM_MAY_HAVE_NEON", "OPUS_ARM_MAY_HAVE_NEON_INTR">>
        /\ env.arch = Some("arm") =>
            /\ Reports(env, {S_neon}) <=>
                    ArmDefines \subseteq Range(build.defines)
            /\ "OPUS_ARM_MAY_HAVE_NEON" \in Range(build.defines) <=>
                    "OPUS_ARM_MAY_HAVE_NEON_INTR" \in Range(build.defines)
        /\ env.arch \notin {Some("x86"), Some("x86_64"), Some("arm"),
                            Some("aarch64")} =>
            ArchDefinesOf(build) = <<>>

C8_Witness ==
    /\ pc = "configured"
    /\ ToggleOn(env)
    /\ env.arch = Some("aarch64")
    /\ ~Reports(env, {S_neon})
    /\ ArmDefines \subseteq Range(build.defines)

\* C9 as stated: the include search path holds exactly four directories.
C9_FourIncludeDirs ==
    pc = "configured" => Cardinality(Range(build.includes)) = 4

\* C9 as amended: the include search path holds exactly five directories of
\* the source tree: include, src, celt, silk and silk/float.
C9_FiveIncludeDirs ==
    pc = "configured" =>
        /\ Len(build.includes) = 5
        /\ Range(build.includes) = {"include", "src", "celt", "silk", "silk/float"}

C9_Witness ==
    /\ pc = "configured"
    /\ "silk/float" \in Range(build.includes)
    /\ "silk" \in Range(build.includes)

\* C10: the six warning-suppression flags are passed exactly when the compiler
\* is not MSVC-like, whatever the toggle, architecture and features; an
\* MSVC-like compiler gets no flag.
C10_WarningFlags ==
    pc = "configured" =>
        /\ ~env.msvc =>
            /\ Len(build.flags) = 6
            /\ Range(build.flags) =
                {"-Wno-unused-variable", "-Wno-unused-parameter",
                 "-Wno-unused-but-set-variable", "-Wno-maybe-uninitialized",
                 "-Wno-sign-compare", "-Wno-pragmas"}
        /\ env.msvc => build.flags = <<>>

C10_Witness ==
    /\ pc = "configured"
    /\ env.msvc
    /\ ToggleOn(env)
    /\ env.arch = Some("x86_64")
    /\ build.flags = <<>>
    /\ Len(ArchDefinesOf(build)) >= 1

====
